---------------------------- MODULE Spec2Model ----------------------------
(***************************************************************************)
(* Model of the DNS responder of alekswn/DNSServer (cpp/src).              *)
(*                                                                         *)
(* Strings that the code processes byte by byte (owner names, record       *)
(* values, packets) are sequences of byte values 0..255.  Record type      *)
(* strings are only ever compared for equality and are TLA+ strings.       *)
(* C++ indices are 0-based: At(s, i) is s[i] of the source.                *)
(***************************************************************************)
EXTENDS Integers, Sequences, FiniteSets, TLC

VARIABLES
    records,    \* DNSServer::records: lowercase owner name -> sequence of DNSRecord
    added,      \* history: the records handed to addRecord, as given, in call order
    op,         \* the operation that ran last
    arg,        \* its arguments
    ret,        \* its return value
    reader,     \* a dns_packet::PacketReader: its data and position
    running,    \* main.cpp's atomic flag, cleared by signalHandler
    pc,         \* where main() stands
    sockfd,     \* main's UDP socket: "none", "open" or "closed"
    buffer,     \* the datagram recvfrom stored (querySpan)
    request,    \* the createDNSResponse call in progress
    received,   \* number of datagrams recvfrom has delivered
    sent        \* number of replies handed to sendto

mainVars == <<running, pc, sockfd, buffer, request, received, sent>>

vars == <<records, added, op, arg, ret, reader, mainVars>>

-----------------------------------------------------------------------------
(* Bounds of the model                                                     *)

\* number of addRecord calls in a run
MaxAdds == 2

\* length of the zero padding that follows the question in a padded query
PadLen == 477

-----------------------------------------------------------------------------
(* Byte and sequence helpers                                               *)

At(s, i) == s[i + 1]

SetAt(s, i, v) == [s EXCEPT ![i + 1] = v]

\* a | b on 8-bit values
RECURSIVE BitOr(_, _, _)
BitOr(a, b, bits) ==
    IF bits = 0 THEN 0
    ELSE (IF (a % 2 = 1) \/ (b % 2 = 1) THEN 1 ELSE 0)
         + 2 * BitOr(a \div 2, b \div 2, bits - 1)

Zeros(n) == [i \in 1..n |-> 0]

-----------------------------------------------------------------------------
(* dns_server.h: RecordType and its conversions.  RecordType values are    *)
(* the enumerators' ordinals, A = 0 .. Unknown = 9.                        *)

RecordType == 0..9

to_string_view(type) ==
    CASE type = 0 -> "A"
      [] type = 1 -> "AAAA"
      [] type = 2 -> "CNAME"
      [] type = 3 -> "MX"
      [] type = 4 -> "NS"
      [] type = 5 -> "PTR"
      [] type = 6 -> "SOA"
      [] type = 7 -> "TXT"
      [] type = 8 -> "HINFO"
      [] OTHER    -> "Unknown"

parse_record_type(type_str) ==
    IF type_str = "A" THEN 0
    ELSE IF type_str = "AAAA" THEN 1
    ELSE IF type_str = "CNAME" THEN 2
    ELSE IF type_str = "MX" THEN 3
    ELSE IF type_str = "NS" THEN 4
    ELSE IF type_str = "PTR" THEN 5
    ELSE IF type_str = "SOA" THEN 6
    ELSE IF type_str = "TXT" THEN 7
    ELSE IF type_str = "HINFO" THEN 8
    ELSE 9

\* DNSRecord(n, t, v)
DNSRecord(n, t, v) == [name |-> n, type |-> t, value |-> v]

\* DNSRecord(n, RecordType t, v)
DNSRecordEnum(n, t, v) == [name |-> n, type |-> to_string_view(t), value |-> v]

-----------------------------------------------------------------------------
(* dns_server.cpp: the record store                                        *)

\* std::tolower in the "C" locale
tolower(c) == IF c >= 65 /\ c <= 90 THEN c + 32 ELSE c

\* the name left in the case it was given in
toLowercase_keep(str) == str

toLowercase(str) == [i \in 1..Len(str) |-> tolower(str[i])]

\* DNSServer::addRecord: the store after the call
addRecord_unique(server, record) ==
    LET normalizedRecord == DNSRecord(toLowercase(record.name), record.type, record.value)
        key == normalizedRecord.name
    IN  IF key \in DOMAIN server
        THEN IF \E i \in 1..Len(server[key]) : server[key][i] = normalizedRecord
             THEN server
             ELSE [server EXCEPT ![key] = Append(@, normalizedRecord)]
        ELSE server @@ (key :> <<normalizedRecord>>)

addRecord_asgiven(server, record) ==
    LET normalizedRecord == DNSRecord(toLowercase(record.name), record.type, record.value)
        key == normalizedRecord.name
    IN  IF key \in DOMAIN server
        THEN [server EXCEPT ![key] = Append(@, record)]
        ELSE server @@ (key :> <<record>>)

addRecord(server, record) ==
    LET normalizedRecord == DNSRecord(toLowercase(record.name), record.type, record.value)
        key == normalizedRecord.name
    IN  IF key \in DOMAIN server
        THEN [server EXCEPT ![key] = Append(@, normalizedRecord)]
        ELSE server @@ (key :> <<normalizedRecord>>)

\* DNSServer::empty
empty(server) == DOMAIN server = {}

\* DNSServer::query: the returned vector
query_exact(server, name) ==
    IF name \in DOMAIN server THEN server[name] ELSE <<>>

query(server, name) ==
    LET normalizedName == toLowercase(name)
    IN  IF normalizedName \in DOMAIN server THEN server[normalizedName] ELSE <<>>

\* DNSServer::queryByType (string overload): the loop over results
RECURSIVE filterLoop(_, _, _, _)
filterLoop(results, type, i, filtered) ==
    IF i > Len(results) THEN filtered
    ELSE filterLoop(results, type, i + 1,
                    IF results[i].type = type THEN Append(filtered, results[i])
                    ELSE filtered)

queryByType_first(server, name, type) ==
    LET all == filterLoop(query(server, name), type, 1, <<>>)
    IN  IF all = <<>> THEN <<>> ELSE <<all[1]>>

queryByType(server, name, type) ==
    filterLoop(query(server, name), type, 1, <<>>)

\* DNSServer::queryByType (RecordType overload)
queryByTypeEnum(server, name, type) ==
    queryByType(server, name, to_string_view(type))

-----------------------------------------------------------------------------
(* main.cpp: name decoding and encoding                                    *)

MAX_DNS_PACKET_SIZE == 512

\* parseDomainName(packet, offset).  ok is FALSE when the code would read
\* packet[] at or beyond packet.size() (why = "out_of_bounds"), or recurse
\* without end through a pointer cycle (why = "unbounded_recursion"; depth
\* counts the pointers followed so far).
RECURSIVE parseDomainNameFrom(_, _, _, _)
parseDomainNameFrom(packet, offset, domainName, depth) ==
    IF depth > Len(packet)
    THEN [ok |-> FALSE, name |-> domainName, offset |-> offset,
          why |-> "unbounded_recursion"]
    ELSE IF offset >= Len(packet)
    THEN [ok |-> FALSE, name |-> domainName, offset |-> offset, why |-> "out_of_bounds"]
    ELSE LET labelLength == At(packet, offset) IN
         IF labelLength = 0
         THEN [ok |-> TRUE, name |-> domainName, offset |-> offset + 1, why |-> ""]
         ELSE IF (labelLength \div 64) % 4 = 3
         THEN IF offset + 1 >= Len(packet)
              THEN [ok |-> FALSE, name |-> domainName, offset |-> offset + 1,
                    why |-> "out_of_bounds"]
              ELSE LET pointer == (labelLength % 64) * 256 + At(packet, offset + 1)
                       suffix == parseDomainNameFrom(packet, pointer, <<>>, depth + 1)
                   IN  [ok |-> suffix.ok,
                        name |-> domainName \o suffix.name,
                        offset |-> offset + 2,
                        why |-> suffix.why]
         ELSE IF offset + labelLength >= Len(packet)
         THEN [ok |-> FALSE, name |-> domainName, offset |-> Len(packet),
               why |-> "out_of_bounds"]
         ELSE parseDomainNameFrom(
                  packet, offset + 1 + labelLength,
                  (IF domainName = <<>> THEN <<>> ELSE domainName \o <<46>>)
                      \o SubSeq(packet, offset + 2, offset + 1 + labelLength),
                  depth)

parseDomainName(packet, offset) == parseDomainNameFrom(packet, offset, <<>>, 0)

\* encodeDomainName(domain): the loop over the characters, taken one label
\* at a time (the characters from i up to the next dot are appended to
\* label, the dot pushes the label), then the last label and the
\* terminating zero
RECURSIVE encodeLoop(_, _, _, _)
encodeLoop(domain, i, label, result) ==
    LET dots == {j \in i..Len(domain) : domain[j] = 46} IN
    IF dots = {}
    THEN LET last == label \o SubSeq(domain, i, Len(domain))
         IN  (IF last # <<>> THEN result \o <<Len(last) % 256>> \o last ELSE result)
             \o <<0>>
    ELSE LET dot == CHOOSE j \in dots : \A k \in dots : j <= k
             whole == label \o SubSeq(domain, i, dot - 1)
         IN  encodeLoop(domain, dot + 1, <<>>, result \o <<Len(whole) % 256>> \o whole)

\* the encoder without the "add the last label if any" step
encodeDomainName_nolast(domain) ==
    LET dots == {i \in 1..Len(domain) : domain[i] = 46}
        lastDot == IF dots = {} THEN 0 ELSE CHOOSE i \in dots : \A j \in dots : j <= i
    IN  encodeLoop(SubSeq(domain, 1, lastDot), 1, <<>>, <<>>)

encodeDomainName(domain) == encodeLoop(domain, 1, <<>>, <<>>)

-----------------------------------------------------------------------------
(* Library calls of the answer loop                                        *)

\* inet_pton(AF_INET, text, &addr): ok and the four bytes written to addr
RECURSIVE inet_pton4(_, _, _, _, _)
inet_pton4(src, i, tmp, saw_digit, octets) ==
    IF i > Len(src)
    THEN [ok |-> octets = 4, bytes |-> tmp]
    ELSE LET ch == src[i] IN
         IF ch >= 48 /\ ch <= 57
         THEN LET cur == tmp[Len(tmp)]
                  new == cur * 10 + (ch - 48)
              IN  IF (saw_digit /\ cur = 0) \/ new > 255 \/ (~saw_digit /\ octets = 4)
                  THEN [ok |-> FALSE, bytes |-> tmp]
                  ELSE inet_pton4(src, i + 1, [tmp EXCEPT ![Len(tmp)] = new], TRUE,
                                  IF saw_digit THEN octets ELSE octets + 1)
         ELSE IF ch = 46 /\ saw_digit
         THEN IF octets = 4
              THEN [ok |-> FALSE, bytes |-> tmp]
              ELSE inet_pton4(src, i + 1, Append(tmp, 0), FALSE, octets)
         ELSE [ok |-> FALSE, bytes |-> tmp]

\* the address bytes stored last byte first
inet_pton_reversed(src) ==
    LET addr == inet_pton4(src, 1, <<0>>, FALSE, 0)
    IN  [ok |-> addr.ok,
         bytes |-> [i \in 1..Len(addr.bytes) |-> addr.bytes[Len(addr.bytes) + 1 - i]]]

inet_pton(src) == inet_pton4(src, 1, <<0>>, FALSE, 0)

\* std::stoi(str): ok is FALSE when it throws.  The digits are accumulated
\* with the sign applied; range is FALSE once the value leaves the int range
\* -2147483648 .. 2147483647.
RECURSIVE stoiDigits(_, _, _, _)
stoiDigits(str, i, acc, negative) ==
    IF i > Len(str) \/ str[i] < 48 \/ str[i] > 57
    THEN [range |-> TRUE, value |-> acc]
    ELSE LET d == str[i] - 48 IN
         IF negative
         THEN IF acc < 0 - 214748364 \/ (acc = 0 - 214748364 /\ d > 8)
              THEN [range |-> FALSE, value |-> acc]
              ELSE stoiDigits(str, i + 1, acc * 10 - d, negative)
         ELSE IF acc > 214748364 \/ (acc = 214748364 /\ d > 7)
              THEN [range |-> FALSE, value |-> acc]
              ELSE stoiDigits(str, i + 1, acc * 10 + d, negative)

\* a conversion that rejects every text
stoi_fails(str) == [ok |-> FALSE, value |-> 0]

stoi(str) ==
    LET isspace(c) == c = 32 \/ (c >= 9 /\ c <= 13)
        blanks == {i \in 1..Len(str) : \A j \in 1..i : isspace(str[j])}
        start == Cardinality(blanks) + 1
        signed == start <= Len(str) /\ str[start] \in {43, 45}
        negative == signed /\ str[start] = 45
        first == IF signed THEN start + 1 ELSE start
        hasDigit == first <= Len(str) /\ str[first] >= 48 /\ str[first] <= 57
        digits == stoiDigits(str, first, 0, negative)
    IN  [ok |-> hasDigit /\ digits.range, value |-> digits.value]

\* std::string::find(' '): 0-based position, or -1 for npos
findSpace(value) ==
    LET at == {i \in 1..Len(value) : value[i] = 32}
    IN  IF at = {} THEN 0 - 1
        ELSE (CHOOSE i \in at : \A j \in at : i <= j) - 1

-----------------------------------------------------------------------------
(* main.cpp: createDNSResponse                                             *)

U16(n) == <<(n \div 256) % 256, n % 256>>

U32(n) == <<(n \div 16777216) % 256, (n \div 65536) % 256, (n \div 256) % 256, n % 256>>

\* the wire type of a stored record (the if/else chain of the answer loop)
recordTypeCode(type) ==
    IF type = "NS" THEN 2
    ELSE IF type = "CNAME" THEN 5
    ELSE IF type = "SOA" THEN 6
    ELSE IF type = "PTR" THEN 12
    ELSE IF type = "MX" THEN 15
    ELSE IF type = "TXT" THEN 16
    ELSE 1

\* RDLENGTH and RDATA of one record.  uninit is the content of the
\* uninitialised in_addr, read when inet_pton rejects the value (a
\* little-endian host is assumed for the s_addr shifts).
rdataOf(record, uninit) ==
    LET type == recordTypeCode(record.type) IN
    IF type = 1
    THEN LET addr == inet_pton(record.value)
         IN  <<0, 4>> \o (IF addr.ok THEN addr.bytes ELSE uninit)
    ELSE IF type \in {2, 5, 12}
    THEN LET encodedName == encodeDomainName(record.value)
         IN  U16(Len(encodedName)) \o encodedName
    ELSE IF type = 15
    THEN LET spacePos == findSpace(record.value)
             parsed == IF spacePos # 0 - 1
                       THEN stoi(SubSeq(record.value, 1, spacePos))
                       ELSE [ok |-> FALSE, value |-> 0]
             priority == IF parsed.ok THEN parsed.value % 65536 ELSE 10
             hostname == IF parsed.ok
                         THEN SubSeq(record.value, spacePos + 2, Len(record.value))
                         ELSE record.value
             encodedName == encodeDomainName(hostname)
         IN  <<0, (2 + Len(encodedName)) % 256>> \o U16(priority) \o encodedName
    ELSE IF type = 16
    THEN LET value == IF Len(record.value) > 255
                      THEN SubSeq(record.value, 1, 255)
                      ELSE record.value
         IN  <<0, (Len(value) + 1) % 256>> \o <<Len(value) % 256>> \o value
    ELSE IF type = 6
    THEN LET encodedPrimary ==
                 \* "ns1.example.com"
                 encodeDomainName(<<110, 115, 49, 46, 101, 120, 97, 109, 112, 108, 101,
                                    46, 99, 111, 109>>)
             encodedAdmin ==
                 \* "admin.example.com"
                 encodeDomainName(<<97, 100, 109, 105, 110, 46, 101, 120, 97, 109, 112,
                                    108, 101, 46, 99, 111, 109>>)
             totalLength == Len(encodedPrimary) + Len(encodedAdmin) + 20
         IN  U16(totalLength) \o encodedPrimary \o encodedAdmin
             \o U32(2023091401) \o U32(3600) \o U32(900) \o U32(1209600) \o U32(300)
    ELSE <<0, Len(record.value) % 256>> \o record.value

\* an answer that spells its owner name out instead of pointing at offset 12
answerRecord_ownername(record, uninit) ==
    encodeDomainName(record.name) \o U16(recordTypeCode(record.type)) \o <<0, 1>>
    \o <<0, 0, 1, 44>> \o rdataOf(record, uninit)

\* one iteration of the answer loop: the bytes pushed for one record
answerRecord(record, uninit) ==
    <<192, 12>> \o U16(recordTypeCode(record.type)) \o <<0, 1>> \o <<0, 0, 1, 44>>
    \o rdataOf(record, uninit)

\* the answer loop run from the last matched record to the first
RECURSIVE answerLoop_reversed(_, _, _, _)
answerLoop_reversed(response, matched, i, uninit) ==
    IF i > Len(matched) THEN response
    ELSE answerLoop_reversed(
             response \o answerRecord(matched[Len(matched) + 1 - i], uninit),
             matched, i + 1, uninit)

RECURSIVE answerLoop(_, _, _, _)
answerLoop(response, matched, i, uninit) ==
    IF i > Len(matched) THEN response
    ELSE answerLoop(response \o answerRecord(matched[i], uninit), matched, i + 1, uninit)

\* response[2] = 0x80; response[3] = 0x00
setResponseFlags_noQR(response) ==
    SetAt(SetAt(response, 2, ((At(response, 2) \div 8) % 16) * 8), 3, 0)

setResponseFlags(response) == SetAt(SetAt(response, 2, 128), 3, 0)

\* a QTYPE switch whose default selects no stored type
qtypeString_nodefault(qtype) ==
    CASE qtype = 1  -> "A"
      [] qtype = 2  -> "NS"
      [] qtype = 5  -> "CNAME"
      [] qtype = 6  -> "SOA"
      [] qtype = 12 -> "PTR"
      [] qtype = 15 -> "MX"
      [] qtype = 16 -> "TXT"
      [] OTHER      -> "Unknown"

\* the QTYPE switch
qtypeString(qtype) ==
    CASE qtype = 1  -> "A"
      [] qtype = 2  -> "NS"
      [] qtype = 5  -> "CNAME"
      [] qtype = 6  -> "SOA"
      [] qtype = 12 -> "PTR"
      [] qtype = 15 -> "MX"
      [] qtype = 16 -> "TXT"
      [] OTHER      -> "A"

\* the records selected for the question
matchRecords(server, domainName, qtype) ==
    IF qtype = 255 THEN query(server, domainName)
    ELSE queryByType(server, domainName, qtypeString(qtype))

\* uint16_t answerCount = records.size(); response[6], response[7]
setAnswerCount_keep(response, matched) == response

setAnswerCount(response, matched) ==
    LET answerCount == Len(matched) % 65536
    IN  SetAt(SetAt(response, 6, answerCount \div 256), 7, answerCount % 256)

\* if (records.empty() && server.query(domainName).empty()) response[3] |= 0x03
setRcode_emptyAnswer(response, matched, server, domainName) ==
    IF matched = <<>>
    THEN SetAt(response, 3, BitOr(At(response, 3), 3, 8))
    ELSE response

setRcode(response, matched, server, domainName) ==
    IF matched = <<>> /\ query(server, domainName) = <<>>
    THEN SetAt(response, 3, BitOr(At(response, 3), 3, 8))
    ELSE response

\* if (response.size() > MAX_DNS_PACKET_SIZE) { TC; resize }
truncate_atlimit(response) ==
    IF Len(response) >= MAX_DNS_PACKET_SIZE
    THEN SubSeq(SetAt(response, 2, BitOr(At(response, 2), 2, 8)), 1, MAX_DNS_PACKET_SIZE)
    ELSE response

truncate(response) ==
    IF Len(response) > MAX_DNS_PACKET_SIZE
    THEN SubSeq(SetAt(response, 2, BitOr(At(response, 2), 2, 8)), 1, MAX_DNS_PACKET_SIZE)
    ELSE response

\* every index createDNSResponse reads or writes in q and in its copy lies
\* inside them
InBounds(q) ==
    /\ Len(q) >= 8
    /\ parseDomainName(q, 12).ok
    /\ parseDomainName(q, 12).offset + 1 < Len(q)

\* the response as it stands before the truncation check
assembleResponse(q, server, uninit) ==
    LET parsed     == parseDomainName(q, 12)
        domainName == parsed.name
        offset     == parsed.offset
        qtype      == At(q, offset) * 256 + At(q, offset + 1)
        matched    == matchRecords(server, domainName, qtype)
        header     == setRcode(setAnswerCount(setResponseFlags(q), matched),
                               matched, server, domainName)
    IN  answerLoop(header, matched, 1, uninit)

createDNSResponse(q, server, uninit) == truncate(assembleResponse(q, server, uninit))

-----------------------------------------------------------------------------
(* dns_server.h / dns_server.cpp: dns_packet::PacketReader.  A read returns *)
(* its status ("ok", "out_of_range" for the exception thrown, or           *)
(* "unbounded_recursion" when readDomainName calls itself without end),    *)
(* the value read and the position the reader is left at.                  *)

PacketReader(packet_data) == [data |-> packet_data, position |-> 0]

readUint8(data, position) ==
    IF position >= Len(data)
    THEN [status |-> "out_of_range", value |-> 0, position |-> position]
    ELSE [status |-> "ok", value |-> At(data, position), position |-> position + 1]

readUint16(data, position) ==
    IF position + 1 >= Len(data)
    THEN [status |-> "out_of_range", value |-> 0, position |-> position]
    ELSE [status |-> "ok",
          value |-> At(data, position) * 256 + At(data, position + 1),
          position |-> position + 2]

\* readBytes(length).  The arithmetic is that of size_t: a value within
\* reach of the top of its range is written as the negative number it is
\* congruent to (SIZE_MAX is -1), so position + length wraps as in the code
\* and a negative sum stands for one greater than every buffer size.  When
\* the wrapped sum passes the check, data.subspan is called outside its
\* precondition (status "undefined": a span that reaches beyond the buffer)
\* and position += length moves the position backwards.
readBytes(data, position, length) ==
    LET sum == position + length IN
    IF sum < 0 \/ sum > Len(data)
    THEN [status |-> "out_of_range", value |-> <<>>, position |-> position]
    ELSE IF length < 0
    THEN [status |-> "undefined", value |-> <<>>, position |-> sum]
    ELSE [status |-> "ok",
          value |-> SubSeq(data, position + 1, position + length),
          position |-> sum]

\* position = savedPosition, after the recursive call has returned
restorePosition_stay(savedPosition, positionAfterSuffix) == positionAfterSuffix

restorePosition(savedPosition, positionAfterSuffix) == savedPosition

\* readDomainName: the while loop, entered with the length byte just read;
\* depth counts the pointers followed so far
RECURSIVE readDomainNameLoop(_, _, _, _, _)
readDomainNameLoop(data, position, result, length, depth) ==
    IF length = 0
    THEN [status |-> "ok", value |-> result, position |-> position]
    ELSE IF (length \div 64) % 4 = 3
    THEN LET offsetLow == readUint8(data, position) IN
         IF offsetLow.status # "ok"
         THEN [status |-> offsetLow.status, value |-> result, position |-> position]
         ELSE IF depth >= Len(data)
         THEN [status |-> "unbounded_recursion", value |-> result,
               position |-> (length % 64) * 256 + offsetLow.value]
         ELSE LET offset == (length % 64) * 256 + offsetLow.value
                  savedPosition == offsetLow.position
                  first  == readUint8(data, offset)
                  suffix == IF first.status # "ok"
                            THEN [status |-> first.status, value |-> <<>>,
                                  position |-> offset]
                            ELSE readDomainNameLoop(data, first.position, <<>>,
                                                    first.value, depth + 1)
              IN  IF suffix.status # "ok"
                  THEN [status |-> suffix.status, value |-> result,
                        position |-> suffix.position]
                  ELSE [status |-> "ok",
                        value |-> (IF result # <<>> THEN result \o <<46>> ELSE result)
                                  \o suffix.value,
                        position |-> restorePosition(savedPosition, suffix.position)]
    ELSE LET label == readBytes(data, position, length) IN
         IF label.status # "ok"
         THEN [status |-> label.status, value |-> result, position |-> position]
         ELSE LET appended == (IF result # <<>> THEN result \o <<46>> ELSE result)
                              \o label.value
                  next == readUint8(data, label.position)
              IN  IF next.status # "ok"
                  THEN [status |-> next.status, value |-> appended,
                        position |-> label.position]
                  ELSE readDomainNameLoop(data, next.position, appended,
                                          next.value, depth)

readDomainName(data, position) ==
    LET length == readUint8(data, position)
    IN  IF length.status # "ok"
        THEN [status |-> length.status, value |-> <<>>, position |-> position]
        ELSE readDomainNameLoop(data, length.position, <<>>, length.value, 0)

-----------------------------------------------------------------------------
(* tests/dns_server_test.cpp: createDNSQuery, the builder of query packets *)

RECURSIVE qnameLoop(_, _, _)
qnameLoop(domainName, pos, packet) ==
    LET dots    == {i \in pos..(Len(domainName) - 1) : At(domainName, i) = 46}
        nextDot == IF dots = {} THEN Len(domainName)
                   ELSE CHOOSE i \in dots : \A j \in dots : i <= j
        label   == SubSeq(domainName, pos + 1, nextDot)
        pushed  == packet \o <<Len(label) % 256>> \o label
    IN  IF nextDot + 1 <= Len(domainName) /\ nextDot < Len(domainName)
        THEN qnameLoop(domainName, nextDot + 1, pushed)
        ELSE pushed

createDNSQuery(id, domainName, qtype, qclass, opcode) ==
    LET header == U16(id) \o <<(opcode * 8 + 1) % 256, 0>> \o <<0, 1>> \o Zeros(6)
    IN  qnameLoop(domainName, 0, header) \o <<0>> \o U16(qtype) \o U16(qclass)

-----------------------------------------------------------------------------
(* Inputs                                                                  *)

\* owner names handed to addRecord: "a.B", "A.b", "c"
Names == {<<97, 46, 66>>, <<65, 46, 98>>, <<99>>}

\* names asked for: the above and "a.b"
QueryNames == Names \cup {<<97, 46, 98>>}

\* type and value of the records added:
\* A "10.0.0.2", A "192.0.2.1", MX "10 c"
TypeValues ==
    { [type |-> "A",   value |-> <<49, 48, 46, 48, 46, 48, 46, 50>>],
      [type |-> "A",   value |-> <<49, 57, 50, 46, 48, 46, 50, 46, 49>>],
      [type |-> "MX",  value |-> <<49, 48, 32, 99>>] }

\* type strings asked for by queryByType
TypeStrings == {"A", "MX", "TXT", "NS"}

\* QTYPE values asked for: A, MX, TXT, AAAA (28), ANY
QTypes == {1, 15, 16, 28, 255}

\* headers of the queries: the ID, the opcode, the bits or-ed into the flag
\* bytes 2 and 3 on top of what createDNSQuery sets, and the ANCOUNT the
\* query carries
Headers ==
    { [id |-> 1234,  opcode |-> 0,  flags2 |-> 0,   flags3 |-> 0,   ancount |-> 0],
      [id |-> 65279, opcode |-> 2,  flags2 |-> 0,   flags3 |-> 128, ancount |-> 258],
      [id |-> 256,   opcode |-> 15, flags2 |-> 135, flags3 |-> 255, ancount |-> 65535] }

\* bytes that follow the question in the datagram
Trailings == {<<>>, Zeros(PadLen)}

\* contents of an uninitialised in_addr
Uninits == {<<0, 0, 0, 0>>, <<222, 173, 190, 239>>}

queryPacket(h, name, qtype, trailing) ==
    LET base == createDNSQuery(h.id, name, qtype, 1, h.opcode)
        b2   == SetAt(base, 2, BitOr(At(base, 2), h.flags2, 8))
        b3   == SetAt(b2, 3, BitOr(At(b2, 3), h.flags3, 8))
    IN  SetAt(SetAt(b3, 6, h.ancount \div 256), 7, h.ancount % 256) \o trailing

-----------------------------------------------------------------------------
(* The state machine                                                       *)

Init ==
    /\ records = <<>>
    /\ added = <<>>
    /\ op = "idle"
    /\ arg = <<>>
    /\ ret = <<>>
    /\ reader = [data |-> <<>>, position |-> 0]
    /\ running = TRUE
    /\ pc = "main"
    /\ sockfd = "none"
    /\ buffer = <<>>
    /\ request = [phase |-> "none", offset |-> 0, followed |-> {}, domainName |-> <<>>,
                  matched |-> <<>>, response |-> <<>>]
    /\ received = 0
    /\ sent = 0

\* server.addRecord(DNSRecord(name, type, value)) and the string_view overload
AddRecord(name, type, value) ==
    /\ op = "idle"
    /\ Len(added) < MaxAdds
    /\ records' = addRecord(records, DNSRecord(name, type, value))
    /\ added' = Append(added, DNSRecord(name, type, value))
    /\ UNCHANGED <<op, arg, ret, reader, mainVars>>

\* server.addRecord(name, RecordType, value)
AddRecordEnum(name, type, value) ==
    /\ op = "idle"
    /\ Len(added) < MaxAdds
    /\ records' = addRecord(records, DNSRecordEnum(name, type, value))
    /\ added' = Append(added, DNSRecordEnum(name, type, value))
    /\ UNCHANGED <<op, arg, ret, reader, mainVars>>

\* server.query(name): a const member, the store is not written
Query_inserting(name) ==
    /\ op = "idle"
    /\ ret' = query(records, name)
    /\ records' = IF toLowercase(name) \in DOMAIN records THEN records
                  ELSE records @@ (toLowercase(name) :> <<>>)
    /\ op' = "query"
    /\ arg' = [name |-> name]
    /\ UNCHANGED <<added, reader, mainVars>>

Query(name) ==
    /\ op = "idle"
    /\ ret' = query(records, name)
    /\ op' = "query"
    /\ arg' = [name |-> name]
    /\ UNCHANGED <<records, added, reader, mainVars>>

\* server.queryByType(name, type) with a type string
QueryByType(name, type) ==
    /\ op = "idle"
    /\ ret' = queryByType(records, name, type)
    /\ op' = "queryByType"
    /\ arg' = [name |-> name, type |-> type]
    /\ UNCHANGED <<records, added, reader, mainVars>>

\* server.queryByType(name, type) with a RecordType
QueryByTypeEnum(name, type) ==
    /\ op = "idle"
    /\ ret' = queryByTypeEnum(records, name, type)
    /\ op' = "queryByTypeEnum"
    /\ arg' = [name |-> name, type |-> type]
    /\ UNCHANGED <<records, added, reader, mainVars>>

\* createDNSResponse(query, server) for a query whose decoding stays inside
\* the packet.  arg.full is the response as assembled, before the size check.
CreateDNSResponse(h, name, qtype, trailing) ==
    LET q == queryPacket(h, name, qtype, trailing) IN
    /\ op = "idle"
    /\ InBounds(q)
    /\ \E full \in {assembleResponse(q, records, uninit) : uninit \in Uninits} :
           /\ ret' = truncate(full)
           /\ arg' = [query |-> q, name |-> name, qtype |-> qtype, full |-> full]
    /\ op' = "createDNSResponse"
    /\ UNCHANGED <<records, added, reader, mainVars>>

\* the caller is done with the returned value (the vector goes out of scope)
Return ==
    /\ op # "idle"
    /\ op' = "idle"
    /\ arg' = <<>>
    /\ ret' = <<>>
    /\ UNCHANGED <<records, added, reader, mainVars>>

Next ==
    \/ \E name \in Names, tv \in TypeValues : AddRecord(name, tv.type, tv.value)
    \/ \E name \in Names, type \in RecordType, tv \in TypeValues :
           to_string_view(type) = tv.type /\ AddRecordEnum(name, type, tv.value)
    \/ \E name \in QueryNames : Query(name)
    \/ \E name \in QueryNames, type \in TypeStrings : QueryByType(name, type)
    \/ \E name \in QueryNames, type \in RecordType : QueryByTypeEnum(name, type)
    \/ \E h \in Headers, name \in QueryNames, qtype \in QTypes, trailing \in Trailings :
           CreateDNSResponse(h, name, qtype, trailing)
    \/ Return

Spec == Init /\ [][Next]_vars

-----------------------------------------------------------------------------
(* The packet reader and the two name decoders on their own                *)

\* longest name handed to encodeDomainName (the 63-byte label apart)
MaxNameLen == 4

\* the names over "a", "A", "." of at most MaxNameLen bytes
RECURSIVE NamesUpTo(_)
NamesUpTo(n) ==
    IF n = 0 THEN {<<>>}
    ELSE LET shorter == NamesUpTo(n - 1)
         IN  shorter \cup {Append(s, c) : s \in shorter, c \in {97, 65, 46}}

\* non-empty labels of 1 to 63 bytes separated by single dots
ValidName(n) ==
    /\ n # <<>>
    /\ n[1] # 46
    /\ n[Len(n)] # 46
    /\ \A i \in 1..(Len(n) - 1) : ~(n[i] = 46 /\ n[i + 1] = 46)

\* a label of 63 bytes "A", alone and after the label "a"
LongLabel == [i \in 1..63 |-> 65]

ValidNames ==
    {n \in NamesUpTo(MaxNameLen) : ValidName(n)}
    \cup {LongLabel, <<97, 46>> \o LongLabel}

\* raw buffers handed to a PacketReader
Packets ==
    { \* 0: pointer to 4, 4: pointer to 8, 8: "a.b"
      <<192, 4, 255, 255, 192, 8, 255, 255, 1, 97, 1, 98, 0>>,
      \* 0: "c", 3: pointer to 0, 5: pointer to 3
      <<1, 99, 0, 192, 0, 192, 3>>,
      \* a header, then at 12 a pointer to 12
      Zeros(12) \o <<192, 12>>,
      \* 0: pointer to 2, 2: pointer to 0
      <<192, 2, 192, 0>>,
      \* 0: "a", 3: "b" then a pointer to 0
      <<1, 97, 0, 1, 98, 192, 0>>,
      \* 0: the root name, 1: "a" then a pointer to 0
      <<0, 1, 97, 192, 0>>,
      \* a label of 5 bytes of which 2 are there
      <<5, 97, 98>>,
      \* a pointer to 50, beyond the end
      <<192, 50>>,
      \* a label with no terminating zero
      <<1, 97>>,
      \* the first byte of a pointer
      <<192>>,
      \* a query for "a.B", type A
      createDNSQuery(1234, <<97, 46, 66>>, 1, 1, 0) }

\* lengths asked of readBytes; the last is SIZE_MAX
ReadLengths == {0, 1, 3, 12, 0 - 1}

\* PacketReader reader(packet)
NewReader(packet) ==
    /\ op = "idle"
    /\ reader' = PacketReader(packet)
    /\ UNCHANGED <<records, added, op, arg, ret, mainVars>>

\* PacketReader reader(encodeDomainName(name))
EncodeName(name) ==
    /\ op = "idle"
    /\ ret' = encodeDomainName(name)
    /\ reader' = PacketReader(encodeDomainName(name))
    /\ op' = "encodeDomainName"
    /\ arg' = [name |-> name]
    /\ UNCHANGED <<records, added, mainVars>>

ReadUint8 ==
    /\ op = "idle"
    /\ ret' = readUint8(reader.data, reader.position)
    /\ reader' = [reader EXCEPT !.position = ret'.position]
    /\ op' = "readUint8"
    /\ arg' = [start |-> reader.position]
    /\ UNCHANGED <<records, added, mainVars>>

ReadUint16 ==
    /\ op = "idle"
    /\ ret' = readUint16(reader.data, reader.position)
    /\ reader' = [reader EXCEPT !.position = ret'.position]
    /\ op' = "readUint16"
    /\ arg' = [start |-> reader.position]
    /\ UNCHANGED <<records, added, mainVars>>

\* reader.readBytes(length).  A call outside subspan's precondition either
\* goes on with the span and the position readBytes computes, or is stopped
\* by the library's assertion (a build with assertions enabled).
ReadBytes(length) ==
    LET result == readBytes(reader.data, reader.position, length) IN
    /\ op = "idle"
    /\ \/ /\ ret' = result
          /\ reader' = [reader EXCEPT !.position = result.position]
          /\ op' = "readBytes"
       \/ /\ result.status = "undefined"
          /\ ret' = [status |-> "aborted", value |-> <<>>, position |-> reader.position]
          /\ reader' = reader
          /\ op' = "crashed"
    /\ arg' = [start |-> reader.position, length |-> length]
    /\ UNCHANGED <<records, added, mainVars>>

ReadDomainName ==
    /\ op = "idle"
    /\ ret' = readDomainName(reader.data, reader.position)
    /\ reader' = [reader EXCEPT !.position = ret'.position]
    /\ op' = "readDomainName"
    /\ arg' = [start |-> reader.position]
    /\ UNCHANGED <<records, added, mainVars>>

\* parseDomainName(packet, offset) of main.cpp on the reader's buffer, from
\* the reader's position
ParseDomainName ==
    /\ op = "idle"
    /\ ret' = parseDomainName(reader.data, reader.position)
    /\ op' = "parseDomainName"
    /\ arg' = [start |-> reader.position]
    /\ UNCHANGED <<records, added, reader, mainVars>>

NextReader ==
    \/ \E packet \in Packets : NewReader(packet)
    \/ \E name \in ValidNames : EncodeName(name)
    \/ ReadUint8
    \/ ReadUint16
    \/ \E length \in ReadLengths : ReadBytes(length)
    \/ ReadDomainName
    \/ ParseDomainName
    \/ (op # "crashed" /\ Return)

SpecReader == Init /\ [][NextReader]_vars

-----------------------------------------------------------------------------
(* main.cpp: the server as main() runs it.  The store is seeded with the   *)
(* test records, then every datagram received is handed to                 *)
(* createDNSResponse and the result is sent back.                          *)

\* "example.com"
example_com ==
    <<101, 120, 97, 109, 112, 108, 101, 46, 99, 111, 109>>

\* "EXAMPLE.com"
EXAMPLE_com ==
    <<69, 88, 65, 77, 80, 76, 69, 46, 99, 111, 109>>

\* "mail.example.com"
mail_example_com ==
    <<109, 97, 105, 108, 46, 101, 120, 97, 109, 112, 108, 101, 46, 99, 111,
    109>>

\* "ns1.example.com"
ns1_example_com ==
    <<110, 115, 49, 46, 101, 120, 97, 109, 112, 108, 101, 46, 99, 111, 109>>

\* "ns2.example.com"
ns2_example_com ==
    <<110, 115, 50, 46, 101, 120, 97, 109, 112, 108, 101, 46, 99, 111, 109>>

\* "www.example.com"
www_example_com ==
    <<119, 119, 119, 46, 101, 120, 97, 109, 112, 108, 101, 46, 99, 111,
    109>>

\* "test.example.com"
test_example_com ==
    <<116, 101, 115, 116, 46, 101, 120, 97, 109, 112, 108, 101, 46, 99, 111,
    109>>

\* "1.2.0.192.in-addr.arpa"
reverse_name ==
    <<49, 46, 50, 46, 48, 46, 49, 57, 50, 46, 105, 110, 45, 97, 100, 100,
    114, 46, 97, 114, 112, 97>>

\* "nope.example.com"
nope_example_com ==
    <<110, 111, 112, 101, 46, 101, 120, 97, 109, 112, 108, 101, 46, 99, 111,
    109>>

\* the records main() adds before it opens the socket, in call order
SeedRecords ==
    <<
       \* A "192.0.2.1"
       DNSRecordEnum(example_com, 0,
                     <<49, 57, 50, 46, 48, 46, 50, 46, 49>>),
       \* MX "10 mail.example.com"
       DNSRecordEnum(example_com, 3,
                     <<49, 48, 32, 109, 97, 105, 108, 46, 101, 120, 97, 109,
                    112, 108, 101, 46, 99, 111, 109>>),
       \* TXT "This is a test record"
       DNSRecord(example_com, "TXT",
                 <<84, 104, 105, 115, 32, 105, 115, 32, 97, 32, 116, 101,
                    115, 116, 32, 114, 101, 99, 111, 114,
                    100>>),
       \* NS "ns1.example.com"
       DNSRecord(example_com, "NS",
                 ns1_example_com),
       \* NS "ns2.example.com"
       DNSRecord(example_com, "NS",
                 ns2_example_com),
       \* SOA "ns1.example.com admin.example.com 2023091401 3600 900 1209600 300"
       DNSRecord(example_com, "SOA",
                 <<110, 115, 49, 46, 101, 120, 97, 109, 112, 108, 101, 46,
                    99, 111, 109, 32, 97, 100, 109, 105,
                    110, 46, 101, 120, 97, 109, 112, 108,
                    101, 46, 99, 111, 109, 32, 50, 48,
                    50, 51, 48, 57, 49, 52, 48, 49, 32,
                    51, 54, 48, 48, 32, 57, 48, 48, 32,
                    49, 50, 48, 57, 54, 48, 48, 32, 51,
                    48, 48>>),
       \* A "192.0.2.2"
       DNSRecordEnum(mail_example_com, 0,
                     <<49, 57, 50, 46, 48, 46, 50, 46, 50>>),
       \* A "192.0.2.3"
       DNSRecordEnum(ns1_example_com, 0,
                     <<49, 57, 50, 46, 48, 46, 50, 46, 51>>),
       \* A "192.0.2.4"
       DNSRecordEnum(ns2_example_com, 0,
                     <<49, 57, 50, 46, 48, 46, 50, 46, 52>>),
       \* CNAME "example.com"
       DNSRecord(www_example_com, "CNAME",
                 example_com),
       \* A "192.0.2.1"
       DNSRecordEnum(www_example_com, 0,
                     <<49, 57, 50, 46, 48, 46, 50, 46, 49>>),
       \* A "192.0.2.5"
       DNSRecordEnum(test_example_com, 0,
                     <<49, 57, 50, 46, 48, 46, 50, 46, 53>>),
       \* PTR "example.com"
       DNSRecord(reverse_name, "PTR",
                 example_com)
    >>

\* number of addRecord calls made on the server after the seeding
MaxExtra == 1

\* records of further addRecord calls, all under the name example.com in
\* one letter case or another
ExtraRecords ==
    {
      \* MX "mail2.example.com"
      DNSRecord(example_com, "MX",
                <<109, 97, 105, 108, 50, 46, 101, 120, 97, 109, 112, 108,
                101, 46, 99, 111, 109>>),
      \* MX "abc mail.example.com"
      DNSRecord(example_com, "MX",
                <<97, 98, 99, 32, 109, 97, 105, 108, 46, 101, 120, 97, 109,
                112, 108, 101, 46, 99, 111, 109>>),
      \* MX "7abc mail.example.com"
      DNSRecord(example_com, "MX",
                <<55, 97, 98, 99, 32, 109, 97, 105, 108, 46, 101, 120, 97,
                109, 112, 108, 101, 46, 99, 111, 109>>),
      \* MX "65535 mail.example.com"
      DNSRecord(example_com, "MX",
                <<54, 53, 53, 51, 53, 32, 109, 97, 105, 108, 46, 101, 120,
                97, 109, 112, 108, 101, 46, 99, 111, 109>>),
      \* MX "0 mail.example.com"
      DNSRecord(example_com, "MX",
                <<48, 32, 109, 97, 105, 108, 46, 101, 120, 97, 109, 112, 108,
                101, 46, 99, 111, 109>>),
      \* MX "99999999999 mail.example.com"
      DNSRecord(example_com, "MX",
                <<57, 57, 57, 57, 57, 57, 57, 57, 57, 57, 57, 32, 109, 97,
                105, 108, 46, 101, 120, 97, 109, 112, 108,
                101, 46, 99, 111, 109>>),
      \* A "192.0.2.9"
      DNSRecord(EXAMPLE_com, "A",
                <<49, 57, 50, 46, 48, 46, 50, 46, 57>>),
      \* AAAA "2001:db8::1"
      DNSRecord(example_com, "AAAA",
                <<50, 48, 48, 49, 58, 100, 98, 56, 58, 58, 49>>),
      \* TXT "v=spf1 -all"
      DNSRecord(EXAMPLE_com, "TXT",
                <<118, 61, 115, 112, 102, 49, 32, 45, 97, 108, 108>>),
      \* TXT "" (no text)
      DNSRecord(example_com, "TXT", <<>>),
      \* TXT of 255 bytes "x"
      DNSRecord(example_com, "TXT", [i \in 1..255 |-> 120]),
      \* TXT of 300 bytes "x"
      DNSRecord(example_com, "TXT", [i \in 1..300 |-> 120]),
      \* HINFO "PC Linux"
      DNSRecord(example_com, "HINFO", <<80, 67, 32, 76, 105, 110, 117, 120>>)
    }

\* names asked for on the wire
ServeNames == {example_com, EXAMPLE_com, www_example_com, reverse_name, nope_example_com}

\* QTYPE values asked for: the seven the switch knows, ANY, and AAAA (28),
\* 0, 257 and 65535 that it does not know
ServeQTypes == {1, 2, 5, 6, 12, 15, 16, 255, 28, 0, 257, 65535}

\* QCLASS values asked for: IN and ANY
ServeQClasses == {1, 255}

\* bytes after the question: none, or an EDNS OPT pseudo-record (root name,
\* type 41, UDP payload size 4096, no options)
ServeTrailings == {<<>>, <<0, 0, 41, 16, 0, 0, 0, 0, 0, 0, 0>>}

\* a query as a resolver sends it; ARCOUNT is 1 when an OPT record follows
serveQuery(name, qtype, qclass, trailing) ==
    LET base == createDNSQuery(4660, name, qtype, qclass, 0)
    IN  (IF trailing = <<>> THEN base ELSE SetAt(base, 11, 1)) \o trailing

\* datagrams that end too early: five bytes; a header alone; a label that
\* runs past the end; a name cut before its terminating zero; a pointer
\* beyond the datagram; a pointer beyond the receive buffer; a name with no
\* QTYPE and QCLASS after it
MalformedQueries ==
    LET header == SubSeq(createDNSQuery(4660, <<>>, 1, 1, 0), 1, 12)
        name   == encodeDomainName(example_com)
    IN  { <<18, 52, 1, 0, 0>>,
          header,
          header \o <<7, 101, 120>>,
          header \o SubSeq(name, 1, Len(name) - 1),
          header \o <<192, 80>>,
          header \o <<255, 255>>,
          header \o name }

RECURSIVE addRecords(_, _, _)
addRecords(server, recs, i) ==
    IF i > Len(recs) THEN server
    ELSE addRecords(addRecord(server, recs[i]), recs, i + 1)

\* response.size() at the start of each iteration of the answer loop: the
\* offsets at which the answer records are written
RECURSIVE answerStarts(_, _, _, _)
answerStarts(size, matched, i, uninit) ==
    IF i > Len(matched) THEN <<>>
    ELSE <<size>> \o answerStarts(size + Len(answerRecord(matched[i], uninit)),
                                  matched, i + 1, uninit)

\* the records createDNSResponse selects for query q
matchedFor(q, server) ==
    LET parsed == parseDomainName(q, 12)
        qtype  == At(q, parsed.offset) * 256 + At(q, parsed.offset + 1)
    IN  matchRecords(server, parsed.name, qtype)

\* What createDNSResponse does with a query it indexes out of bounds.  The
\* behaviour is undefined; two outcomes are modelled.  The process is killed
\* (an instrumented or hardened build, or an unmapped page).  Or the reads
\* past the span see the rest of main's receive buffer, a vector of 512
\* zero bytes resized down to the datagram, while the writes past the copy
\* do not show in the reply: the reply is the datagram with the header
\* writes that fall inside it, followed by the answers.
undefinedOutcomes(q, server) ==
    LET view == q \o Zeros(MAX_DNS_PACKET_SIZE - Len(q))
        crashed == [op |-> "crashed", full |-> <<>>, matched |-> <<>>]
        matched == matchedFor(view, server)
    IN  {crashed} \cup
        (IF InBounds(view)
         THEN {[op |-> "createDNSResponse",
                full |-> SubSeq(full, 1, Len(q))
                         \o SubSeq(full, Len(view) + 1, Len(full)),
                matched |-> matched] :
               full \in {assembleResponse(view, server, uninit) : uninit \in Uninits}}
         ELSE {})

Started == Len(added) >= Len(SeedRecords)

\* main(): the addRecord calls before the socket is opened
Startup ==
    /\ op = "idle"
    /\ added = <<>>
    /\ records' = addRecords(records, SeedRecords, 1)
    /\ added' = SeedRecords
    /\ UNCHANGED <<op, arg, ret, reader, mainVars>>

\* a further server.addRecord(record)
AddExtra(record) ==
    /\ op = "idle"
    /\ Started
    /\ Len(added) < Len(SeedRecords) + MaxExtra
    /\ records' = addRecord(records, record)
    /\ added' = Append(added, record)
    /\ UNCHANGED <<op, arg, ret, reader, mainVars>>

\* main(): a well-formed query is received and answered.  arg.full is the
\* response as assembled, before the size check.
Serve(name, qtype, qclass, trailing) ==
    LET q == serveQuery(name, qtype, qclass, trailing) IN
    /\ op = "idle"
    /\ Started
    /\ InBounds(q)
    /\ \E full \in {assembleResponse(q, records, uninit) : uninit \in Uninits} :
           /\ ret' = truncate(full)
           /\ arg' = [query |-> q, access |-> "in_bounds", name |-> name,
                      qtype |-> qtype, qclass |-> qclass, trailing |-> trailing,
                      matched |-> matchedFor(q, records), full |-> full,
                      starts |-> answerStarts(Len(q), matchedFor(q, records), 1,
                                              <<0, 0, 0, 0>>)]
    /\ op' = "createDNSResponse"
    /\ UNCHANGED <<records, added, reader, mainVars>>

\* main(): a datagram that ends too early is received
ServeMalformed(q) ==
    /\ op = "idle"
    /\ Started
    /\ ~InBounds(q)
    /\ \E outcome \in undefinedOutcomes(q, records) :
           /\ op' = outcome.op
           /\ ret' = truncate(outcome.full)
           /\ arg' = [query |-> q, access |-> "out_of_bounds",
                      matched |-> outcome.matched, full |-> outcome.full,
                      starts |-> answerStarts(Len(q), outcome.matched, 1,
                                              <<0, 0, 0, 0>>)]
    /\ UNCHANGED <<records, added, reader, mainVars>>

\* the reply was sent and the loop goes round; a killed process does not
NextServe ==
    \/ Startup
    \/ \E record \in ExtraRecords : AddExtra(record)
    \/ \E name \in ServeNames, qtype \in ServeQTypes, qclass \in ServeQClasses,
          trailing \in ServeTrailings : Serve(name, qtype, qclass, trailing)
    \/ \E q \in MalformedQueries : ServeMalformed(q)
    \/ (op # "crashed" /\ Return)

SpecServe == Init /\ [][NextServe]_vars

-----------------------------------------------------------------------------
(* main.cpp: main()'s server loop, one step of the program at a time, with *)
(* signalHandler as the environment's step.  createDNSResponse is taken    *)
(* through the states ReceivedQuery, QuestionDecoded, RecordsMatched,      *)
(* ResponseEncoded and Truncated; parseDomainName is walked one length     *)
(* byte at a time, each pointer followed being one more nested call.       *)

\* how many datagrams the model lets recvfrom deliver
MaxDatagrams == 2

\* datagrams on the wire: a question with an answer, one without, one
\* padded so that its response passes 512 bytes, a question whose name is a
\* pointer to a name behind it, a name that is a pointer to itself, two
\* pointers to each other, a question cut inside its name, and five bytes
LoopDatagrams ==
    LET header == SubSeq(createDNSQuery(4660, <<>>, 1, 1, 0), 1, 12)
        name   == encodeDomainName(example_com)
    IN  { serveQuery(example_com, 1, 1, <<>>),
          serveQuery(nope_example_com, 1, 1, <<>>),
          serveQuery(example_com, 1, 1, Zeros(480)),
          header \o <<192, 14>> \o name \o <<0, 1, 0, 1>>,
          header \o <<192, 12, 0, 1, 0, 1>>,
          header \o <<192, 14, 192, 12, 0, 1, 0, 1>>,
          header \o <<7, 101, 120>>,
          <<18, 52, 1, 0, 0>> }

\* what the code sees when it indexes the span: the datagram, and behind it
\* the rest of the 512 zero bytes the receive buffer was created with
view == buffer \o Zeros(MAX_DNS_PACKET_SIZE - Len(buffer))

\* some index lies outside the span (undefined behaviour: the process may
\* be killed), or outside the receive buffer's allocation as well
outside(indices) == \E i \in indices : i >= Len(buffer)

beyond(indices) == \E i \in indices : i >= MAX_DNS_PACKET_SIZE

NoRequest ==
    [phase |-> "none", offset |-> 0, followed |-> {}, domainName |-> <<>>,
     matched |-> <<>>, response |-> <<>>]

\* signalHandler(signum), run on SIGINT or SIGTERM while the process lives
SignalHandler ==
    /\ pc \notin {"exited", "crashed"}
    /\ running' = FALSE
    /\ UNCHANGED <<records, added, op, arg, ret, reader,
                   pc, sockfd, buffer, request, received, sent>>

\* socket(), setsockopt() and bind(): the loop is entered with the socket
\* open, or the socket is closed again and main returns 1
OpenSocket ==
    /\ pc = "main"
    /\ Started
    /\ \/ sockfd' = "open" /\ pc' = "while"
       \/ sockfd' = "closed" /\ pc' = "exited"
    /\ UNCHANGED <<records, added, op, arg, ret, reader,
                   running, buffer, request, received, sent>>

\* while (running)
WhileRunning ==
    /\ pc = "while"
    /\ pc' = IF running THEN "select" ELSE "cleanup"
    /\ UNCHANGED <<records, added, op, arg, ret, reader,
                   running, sockfd, buffer, request, received, sent>>

\* select() with its timeout of one second returns: interrupted by a
\* signal or timed out (continue), failed (break), or the socket is readable
Select ==
    /\ pc = "select"
    /\ \/ pc' = "while"
       \/ pc' = "cleanup"
       \/ received < MaxDatagrams /\ pc' = "recvfrom"
    /\ UNCHANGED <<records, added, op, arg, ret, reader,
                   running, sockfd, buffer, request, received, sent>>

\* recvfrom() into a fresh buffer; with recvLen > 0 the buffer is resized
\* to the datagram and createDNSResponse(querySpan, server) is called
Recvfrom(datagram) ==
    /\ pc = "recvfrom"
    /\ buffer' = datagram
    /\ received' = received + 1
    /\ request' = [NoRequest EXCEPT !.phase = "ReceivedQuery", !.offset = 12]
    /\ pc' = "createDNSResponse"
    /\ UNCHANGED <<records, added, op, arg, ret, reader, running, sockfd, sent>>

\* recvfrom() returns nothing to process (recvLen <= 0)
RecvfromNothing ==
    /\ pc = "recvfrom"
    /\ pc' = "while"
    /\ UNCHANGED <<records, added, op, arg, ret, reader,
                   running, sockfd, buffer, request, received, sent>>

\* parseDomainName at one length byte: the end of the name, a pointer (one
\* more nested call, made at the pointer's target) or a label.  The call
\* returns what parseDomainName(view, 12) computes.  request.followed holds
\* the offsets of the pointers whose nested calls are open: a pointer met
\* again leads to itself, the calls nest without end and the process is
\* killed when the stack is used up.  A read outside the receive buffer
\* kills the process; a read outside the span may.
DecodeStep ==
    LET o           == request.offset
        labelLength == IF o >= MAX_DNS_PACKET_SIZE THEN 0 ELSE At(view, o)
        isPointer   == (labelLength \div 64) % 4 = 3
        reads       == IF labelLength = 0 THEN {o}
                       ELSE IF isPointer THEN {o, o + 1}
                       ELSE o..(o + labelLength)
    IN
    /\ pc = "createDNSResponse"
    /\ request.phase = "ReceivedQuery"
    /\ \/ /\ outside(reads)
          /\ pc' = "crashed"
          /\ request' = request
       \/ /\ ~beyond(reads)
          /\ IF labelLength = 0
             THEN /\ request' = [request EXCEPT
                                     !.phase = "QuestionDecoded",
                                     !.offset = parseDomainName(view, 12).offset,
                                     !.domainName = parseDomainName(view, 12).name,
                                     !.followed = {}]
                  /\ pc' = pc
             ELSE IF isPointer /\ o \in request.followed
             THEN /\ pc' = "crashed"
                  /\ request' = request
             ELSE IF isPointer
             THEN /\ request' = [request EXCEPT
                                     !.offset = (labelLength % 64) * 256
                                                + At(view, o + 1),
                                     !.followed = @ \cup {o}]
                  /\ pc' = pc
             ELSE /\ request' = [request EXCEPT !.offset = o + 1 + labelLength]
                  /\ pc' = pc
    /\ UNCHANGED <<records, added, op, arg, ret, reader,
                   running, sockfd, buffer, received, sent>>

\* the QTYPE is read behind the name and the records are looked up
MatchStep ==
    LET reads == {request.offset, request.offset + 1} IN
    /\ pc = "createDNSResponse"
    /\ request.phase = "QuestionDecoded"
    /\ \/ /\ outside(reads)
          /\ pc' = "crashed"
          /\ request' = request
       \/ /\ ~beyond(reads)
          /\ request' = [request EXCEPT
                                 !.phase = "RecordsMatched",
                                 !.matched = matchRecords(
                                     records, request.domainName,
                                     At(view, request.offset) * 256
                                     + At(view, request.offset + 1))]
          /\ pc' = pc
    /\ UNCHANGED <<records, added, op, arg, ret, reader,
                   running, sockfd, buffer, received, sent>>

\* the header fields are written into the copy of the query (taken here
\* with the flags written on entry) and the answers appended.  Writes
\* outside the copy may kill the process and do not show in the response.
EncodeStep ==
    /\ pc = "createDNSResponse"
    /\ request.phase = "RecordsMatched"
    /\ \/ /\ outside({2, 3, 6, 7})
          /\ pc' = "crashed"
          /\ request' = request
       \/ /\ \E uninit \in Uninits :
                 LET header == setRcode(
                                   setAnswerCount(setResponseFlags(view),
                                                  request.matched),
                                   request.matched, records, request.domainName)
                     full   == answerLoop(header, request.matched, 1, uninit)
                 IN  request' = [request EXCEPT
                                     !.phase = "ResponseEncoded",
                                     !.response =
                                         SubSeq(full, 1, Len(buffer))
                                         \o SubSeq(full, Len(view) + 1, Len(full))]
          /\ pc' = pc
    /\ UNCHANGED <<records, added, op, arg, ret, reader,
                   running, sockfd, buffer, received, sent>>

\* the size check: a response over 512 bytes is cut and marked; the
\* response is returned to main
TruncateStep ==
    /\ pc = "createDNSResponse"
    /\ request.phase = "ResponseEncoded"
    /\ request' = [request EXCEPT
                       !.phase = IF Len(request.response) > MAX_DNS_PACKET_SIZE
                                 THEN "Truncated" ELSE @,
                       !.response = truncate(@)]
    /\ pc' = "sendto"
    /\ UNCHANGED <<records, added, op, arg, ret, reader,
                   running, sockfd, buffer, received, sent>>

\* sendto() of the response
Sendto ==
    /\ pc = "sendto"
    /\ sent' = sent + 1
    /\ pc' = "log"
    /\ UNCHANGED <<records, added, op, arg, ret, reader,
                   running, sockfd, buffer, request, received>>

\* the query is logged; buffer and response go out of scope
LogQuery ==
    /\ pc = "log"
    /\ buffer' = <<>>
    /\ request' = NoRequest
    /\ pc' = "while"
    /\ UNCHANGED <<records, added, op, arg, ret, reader,
                   running, sockfd, received, sent>>

\* close(sockfd); return 0
Cleanup ==
    /\ pc = "cleanup"
    /\ sockfd' = "closed"
    /\ pc' = "exited"
    /\ UNCHANGED <<records, added, op, arg, ret, reader,
                   running, buffer, request, received, sent>>

\* the steps main() takes by itself
MainStep ==
    \/ Startup
    \/ OpenSocket
    \/ WhileRunning
    \/ Select
    \/ \E datagram \in LoopDatagrams : Recvfrom(datagram)
    \/ RecvfromNothing
    \/ DecodeStep
    \/ MatchStep
    \/ EncodeStep
    \/ TruncateStep
    \/ Sendto
    \/ LogQuery
    \/ Cleanup

NextLoop ==
    \/ MainStep
    \/ SignalHandler

\* main() is one thread of straight-line code around a select() that
\* returns within a second: while the process lives, its next step is taken
SpecLoop == Init /\ [][NextLoop]_vars /\ WF_vars(MainStep)

-----------------------------------------------------------------------------
(* Vocabulary of the properties                                            *)

\* ASCII case-insensitive equality of two names
Fold(c) == IF c >= 97 /\ c <= 122 THEN c - 32 ELSE c

EqIgnoreCase(s, t) ==
    /\ Len(s) = Len(t)
    /\ \A i \in 1..Len(s) : Fold(s[i]) = Fold(t[i])

HasUpper(s) == \E i \in 1..Len(s) : s[i] >= 65 /\ s[i] <= 90

\* the records handed to addRecord under a name equal to n ignoring case
AddedUnder(n) == SelectSeq(added, LAMBDA r : EqIgnoreCase(r.name, n))

NeverAdded(n) == \A i \in 1..Len(added) : ~EqIgnoreCase(added[i].name, n)

TypeValueOf(rs) == [i \in 1..Len(rs) |-> <<rs[i].type, rs[i].value>>]

\* the names of the enumerators of RecordType, in declaration order
EnumNames == <<"A", "AAAA", "CNAME", "MX", "NS", "PTR", "SOA", "TXT", "HINFO", "Unknown">>

\* the record type a QTYPE asks for (255 asks for every type)
QueriedType(qtype) ==
    CASE qtype = 2  -> "NS"
      [] qtype = 5  -> "CNAME"
      [] qtype = 6  -> "SOA"
      [] qtype = 12 -> "PTR"
      [] qtype = 15 -> "MX"
      [] qtype = 16 -> "TXT"
      [] OTHER      -> "A"

\* the added records that answer a question for name n and QTYPE qtype
Wanted(n, qtype) ==
    SelectSeq(AddedUnder(n), LAMBDA r : qtype = 255 \/ r.type = QueriedType(qtype))

Rcode(msg) == At(msg, 3) % 16

Ancount(msg) == At(msg, 6) * 256 + At(msg, 7)

QR(msg) == (At(msg, 2) \div 128) % 2

Opcode(msg) == (At(msg, 2) \div 8) % 16

TC(msg) == (At(msg, 2) \div 2) % 2

Responded == op = "createDNSResponse"

-----------------------------------------------------------------------------
(* Properties                                                              *)

\* C1: query(n) returns exactly the records added under a name equal to n
\* ignoring ASCII case, in the order added, type and value unchanged;
\* records with the same owner and type are all kept.
C1_QueryReturnsAddedInOrder ==
    op = "query" =>
        /\ TypeValueOf(ret) = TypeValueOf(AddedUnder(arg.name))
        /\ \A i \in 1..Len(ret) : EqIgnoreCase(ret[i].name, arg.name)

\* C1 witness: a query returned two equal records, both kept
C1_Witness ==
    /\ op = "query"
    /\ Len(ret) = 2
    /\ ret[1] = ret[2]

\* C2: query(n1) = query(n2) whenever n1 and n2 are equal after ASCII
\* lower-casing, whatever casing the records were added with.
C2_CaseInsensitiveLookup ==
    op = "query" =>
        \A n2 \in QueryNames :
            EqIgnoreCase(arg.name, n2) => query(records, n2) = ret

\* C2 witness: a record added as one casing was found by a query with another
C2_Witness ==
    /\ op = "query"
    /\ ret # <<>>
    /\ \E i \in 1..Len(added) :
           /\ EqIgnoreCase(added[i].name, arg.name)
           /\ added[i].name # arg.name
           /\ HasUpper(arg.name)

\* C3: every bucket key is lowercase and every record stored under key k has
\* name k; the casing given to addRecord is neither stored nor returned.
C3_StoredNamesLowercase ==
    /\ \A k \in DOMAIN records :
           /\ ~HasUpper(k)
           /\ \A i \in 1..Len(records[k]) : records[k][i].name = k
    /\ op \in {"query", "queryByType", "queryByTypeEnum"} =>
           \A i \in 1..Len(ret) : ~HasUpper(ret[i].name)

\* C3 witness: a record added with upper-case letters is stored
C3_Witness ==
    /\ \E i \in 1..Len(added) : HasUpper(added[i].name)
    /\ op = "queryByType"
    /\ ret # <<>>

\* C4: query(n) for a name never added returns the empty sequence and leaves
\* the store as it was: no bucket for n, empty() unchanged, every query
\* answered as before.
C4_UnknownNameQueryPure ==
    [][(op = "idle" /\ op' = "query" /\ NeverAdded(arg'.name)) =>
          /\ ret' = <<>>
          /\ DOMAIN records' = DOMAIN records
          /\ empty(records') = empty(records)
          /\ \A m \in QueryNames : query(records', m) = query(records, m)]_vars

\* C4 witness: a query for a name never added, on a store that holds records
C4_Witness ==
    /\ op = "query"
    /\ NeverAdded(arg.name)
    /\ ~empty(records)

\* C5: queryByType(n, t) is query(n) filtered by type t, order kept; empty for
\* an unknown name or an absent type; the RecordType overload agrees with the
\* string overload called with the enumerator's name.
C5_QueryByTypeFilters ==
    /\ op = "queryByType" =>
           /\ ret = SelectSeq(query(records, arg.name), LAMBDA r : r.type = arg.type)
           /\ TypeValueOf(ret) =
                  TypeValueOf(SelectSeq(AddedUnder(arg.name), LAMBDA r : r.type = arg.type))
           /\ NeverAdded(arg.name) => ret = <<>>
    /\ op = "queryByTypeEnum" =>
           ret = SelectSeq(query(records, arg.name),
                           LAMBDA r : r.type = EnumNames[arg.type + 1])

\* C5 witness: the RecordType overload returned some, not all, of a name's records
C5_Witness ==
    /\ op = "queryByTypeEnum"
    /\ ret # <<>>
    /\ Len(ret) < Len(query(records, arg.name))

\* C6: RCODE is 3 exactly when no record was stored for the queried name, and
\* then ANCOUNT is 0; a name with records but none of the queried type gets
\* RCODE 0, ANCOUNT 0 and no answer record.
C6_RcodeDecision ==
    Responded =>
        /\ Rcode(ret) = 3 <=> NeverAdded(arg.name)
        /\ Rcode(ret) = 3 => Ancount(ret) = 0
        /\ Rcode(ret) # 3 => Rcode(ret) = 0
        /\ (~NeverAdded(arg.name) /\ Wanted(arg.name, arg.qtype) = <<>>) =>
               /\ Rcode(ret) = 0
               /\ Ancount(ret) = 0
               /\ Len(arg.full) = Len(arg.query)

\* C6 witness: a known name asked for a type it has no record of
C6_Witness ==
    /\ Responded
    /\ ~NeverAdded(arg.name)
    /\ Wanted(arg.name, arg.qtype) = <<>>
    /\ Rcode(ret) = 0

\* C7: the response carries the query's ID and QR = 1, whatever the query's
\* flag bits were.
C7_IdEchoedQrSet ==
    Responded =>
        /\ At(ret, 0) = At(arg.query, 0)
        /\ At(ret, 1) = At(arg.query, 1)
        /\ QR(ret) = 1

\* C7 witness: a query with every flag bit set and two different ID bytes
C7_Witness ==
    /\ Responded
    /\ At(arg.query, 2) = 255
    /\ At(arg.query, 0) # At(arg.query, 1)

\* C8: the response preserves the query's OPCODE (bits 0x78 of byte 2).
C8_OpcodePreserved ==
    Responded => Opcode(ret) = Opcode(arg.query)

\* C9: ANCOUNT of the response is the number of records matched, replacing
\* the query's ANCOUNT, truncated or not.
C9_AncountIsMatchCount ==
    Responded => Ancount(ret) = Len(Wanted(arg.name, arg.qtype))

\* C9 witness: a truncated response to a query that carried another ANCOUNT
C9_Witness ==
    /\ Responded
    /\ Len(arg.full) > MAX_DNS_PACKET_SIZE
    /\ Ancount(arg.query) = 65535
    /\ Ancount(ret) = 2

\* C10: a response is at most 512 bytes; an assembled response longer than
\* that is cut to its first 512 bytes with TC = 1; otherwise nothing is
\* removed and TC = 0.
C10_TruncationAt512 ==
    Responded =>
        /\ Len(ret) <= 512
        /\ Len(arg.full) > 512 =>
               /\ Len(ret) = 512
               /\ TC(ret) = 1
               /\ \A i \in 1..512 : i # 3 => ret[i] = arg.full[i]
        /\ Len(arg.full) <= 512 =>
               /\ ret = arg.full
               /\ TC(ret) = 0

\* C10 witness: a response cut inside its last answer record
C10_Witness ==
    /\ Responded
    /\ Len(arg.full) > 512
    /\ Len(arg.full) < 512 + 16
    /\ Len(ret) = 512
    /\ Ancount(ret) > 0

\* the target of the compression pointer at offset off, -1 when there is none
PointerTarget(data, off) ==
    IF off >= 0 /\ off + 1 < Len(data) /\ At(data, off) >= 192
    THEN (At(data, off) % 64) * 256 + At(data, off + 1)
    ELSE 0 - 1

\* the name written at off as literal labels (1 to 63 bytes each) up to a zero
\* byte, all inside data; ok is FALSE when there is no such name at off
RECURSIVE LiteralFrom(_, _, _)
LiteralFrom(data, off, labels) ==
    IF off < 0 \/ off >= Len(data)
    THEN [ok |-> FALSE, name |-> <<>>, end |-> off]
    ELSE IF At(data, off) = 0
    THEN [ok |-> TRUE, name |-> labels, end |-> off + 1]
    ELSE IF At(data, off) > 63 \/ off + At(data, off) >= Len(data)
    THEN [ok |-> FALSE, name |-> <<>>, end |-> off]
    ELSE LiteralFrom(data, off + 1 + At(data, off),
                     (IF labels = <<>> THEN <<>> ELSE labels \o <<46>>)
                         \o [i \in 1..At(data, off) |-> At(data, off + i)])

Literal(data, off) == LiteralFrom(data, off, <<>>)

\* at off stands a pointer to a pointer to a literal name
ChainAt(data, off) ==
    Literal(data, PointerTarget(data, PointerTarget(data, off))).ok

\* C11: readDomainName at a pointer to a pointer to a literal label sequence
\* returns the dot-joined labels and leaves the cursor two bytes past where it
\* started.
C11_ChainedPointersResolved ==
    (op = "readDomainName" /\ ChainAt(reader.data, arg.start)) =>
        /\ ret.status = "ok"
        /\ ret.value =
               Literal(reader.data,
                       PointerTarget(reader.data,
                                     PointerTarget(reader.data, arg.start))).name
        /\ reader.position = arg.start + 2

\* C11 witness: "a.b" was read through two pointers
C11_Witness ==
    /\ op = "readDomainName"
    /\ ChainAt(reader.data, arg.start)
    /\ ret.value = <<97, 46, 98>>

\* the pointer at off points to itself, or to a pointer that points back
CycleAt(data, off) ==
    /\ PointerTarget(data, off) >= 0
    /\ \/ PointerTarget(data, off) = off
       \/ PointerTarget(data, PointerTarget(data, off)) = off

\* C12: decoding a name whose pointers revisit an offset ends with a decode
\* error instead of following the pointers again.
C12_PointerCyclesRejected ==
    /\ (op = "readDomainName" /\ CycleAt(reader.data, arg.start)) =>
           ret.status = "out_of_range"
    /\ (op = "parseDomainName" /\ CycleAt(reader.data, arg.start)) =>
           (~ret.ok /\ ret.why # "unbounded_recursion")

\* the valid names whose encoding is the reader's buffer
EncodedHere == {n \in ValidNames : encodeDomainName(n) = reader.data}

\* C14 as stated: decoding encodeDomainName(n) yields lowercase(n) and
\* consumes exactly all of its bytes.
C14_RoundTripLowercase ==
    /\ (op = "readDomainName" /\ arg.start = 0) =>
           \A n \in EncodedHere :
               /\ ret.status = "ok"
               /\ ret.value = toLowercase(n)
               /\ reader.position = Len(reader.data)
    /\ (op = "parseDomainName" /\ arg.start = 0) =>
           \A n \in EncodedHere :
               /\ ret.ok
               /\ ret.name = toLowercase(n)
               /\ ret.offset = Len(reader.data)

\* C14 amended: decoding encodeDomainName(n) yields n with its letter case
\* kept and consumes exactly all of its bytes, with either decoder.
C14_RoundTripKeepsCase ==
    /\ (op = "readDomainName" /\ arg.start = 0) =>
           \A n \in EncodedHere :
               /\ ret.status = "ok"
               /\ ret.value = n
               /\ reader.position = Len(reader.data)
    /\ (op = "parseDomainName" /\ arg.start = 0) =>
           \A n \in EncodedHere :
               /\ ret.ok
               /\ ret.name = n
               /\ ret.offset = Len(reader.data)

\* C14 witness: the encoding of "a.A" was decoded
C14_Witness ==
    /\ op = "readDomainName"
    /\ arg.start = 0
    /\ <<97, 46, 65>> \in EncodedHere
    /\ ret.value = <<97, 46, 65>>

-----------------------------------------------------------------------------
(* The answer section as it reads on the wire                              *)

\* the answer record at offset off of msg; next is the offset after its RDATA
AnswerAt(msg, off) ==
    IF off + 12 > Len(msg)
    THEN [owner |-> <<>>, type |-> 0 - 1, class |-> 0 - 1, ttl |-> <<>>,
          rdlength |-> 0 - 1, rdata |-> <<>>, next |-> Len(msg) + 1]
    ELSE LET rdlength == At(msg, off + 10) * 256 + At(msg, off + 11)
             next == off + 12 + rdlength
         IN  [owner |-> SubSeq(msg, off + 1, off + 2),
              type  |-> At(msg, off + 2) * 256 + At(msg, off + 3),
              class |-> At(msg, off + 4) * 256 + At(msg, off + 5),
              ttl   |-> SubSeq(msg, off + 7, off + 10),
              rdlength |-> rdlength,
              rdata |-> IF next <= Len(msg) THEN SubSeq(msg, off + 13, next) ELSE <<>>,
              next  |-> next]

\* the n answer records that start at offset off of msg
RECURSIVE AnswersFrom(_, _, _)
AnswersFrom(msg, off, n) ==
    IF n = 0 THEN <<>>
    ELSE <<AnswerAt(msg, off)>> \o AnswersFrom(msg, AnswerAt(msg, off).next, n - 1)

\* the offset after the last of the n answer records that start at off
AnswersEnd(msg, off, n) ==
    IF n = 0 THEN off ELSE AnswersFrom(msg, off, n)[n].next

\* the answer records of the response assembled, read at the offsets the
\* answer loop wrote them at
Answers == [i \in 1..Len(arg.starts) |-> AnswerAt(arg.full, arg.starts[i])]

\* the number of bytes the answer loop wrote for the i-th answer
Written(i) ==
    (IF i = Len(arg.starts) THEN Len(arg.full) ELSE arg.starts[i + 1]) - arg.starts[i]

\* the offset after the QCLASS of the question of q
QuestionEnd(q) == Literal(q, 12).end + 4

WellFormed == Responded /\ arg.access = "in_bounds"

\* C13: createDNSResponse indexes no buffer out of bounds, whatever the
\* datagram; one that cannot be decoded gets no reply or an error reply
\* without answers, and the server survives it.
C13_NoOutOfBoundsAccess ==
    /\ op \in {"createDNSResponse", "crashed"} => arg.access = "in_bounds"
    /\ op # "crashed"
    /\ (Responded /\ ~Literal(arg.query, 12).ok) =>
           /\ Len(ret) >= 12
           /\ Ancount(ret) = 0
           /\ Rcode(ret) # 0

\* C15: every answer record starts with C0 0C and carries CLASS 1 and TTL
\* 300, whatever the record and the QCLASS.
C15_AnswerPreamble ==
    (Responded /\ Len(arg.query) >= 12) =>
        /\ Len(Answers) = Ancount(arg.full)
        /\ \A i \in 1..Len(Answers) :
               /\ Answers[i].owner = <<192, 12>>
               /\ Answers[i].class = 1
               /\ Answers[i].ttl = <<0, 0, 1, 44>>

\* C15 witness: a QCLASS ANY question answered with records of five types
C15_Witness ==
    /\ WellFormed
    /\ arg.qclass = 255
    /\ {1, 2, 6, 15, 16} \subseteq {Answers[i].type : i \in 1..Len(Answers)}

\* the record type each QTYPE of the switch stands for
KnownQTypes ==
    (1 :> "A") @@ (2 :> "NS") @@ (5 :> "CNAME") @@ (6 :> "SOA") @@ (12 :> "PTR")
    @@ (15 :> "MX") @@ (16 :> "TXT")

OfType(rs, t) == SelectSeq(rs, LAMBDA r : r.type = t)

\* C16: QTYPE 255 selects every record of the name, a QTYPE of the switch
\* the records of its type, any other QTYPE the A records; the response
\* counts as many answers.
C16_SelectionByQtype ==
    WellFormed =>
        LET all == AddedUnder(arg.name)
            selected ==
                IF arg.qtype = 255 THEN all
                ELSE IF arg.qtype \in DOMAIN KnownQTypes
                THEN OfType(all, KnownQTypes[arg.qtype])
                ELSE OfType(all, "A")
        IN  /\ TypeValueOf(arg.matched) = TypeValueOf(selected)
            /\ Ancount(arg.full) = Len(selected)

\* C16 witness: an AAAA question (28) for a name that has an AAAA record is
\* answered with the A records of the name
C16_Witness ==
    /\ WellFormed
    /\ arg.qtype = 28
    /\ OfType(AddedUnder(arg.name), "AAAA") # <<>>
    /\ arg.matched # <<>>
    /\ \A i \in 1..Len(arg.matched) : arg.matched[i].type = "A"

\* C17: the question is copied byte for byte and the first answer record
\* begins right after its QCLASS, also when the query carries more bytes.
C17_AnswersFollowQuestion ==
    WellFormed =>
        LET qend == QuestionEnd(arg.query) IN
        /\ SubSeq(arg.full, 13, qend) = SubSeq(arg.query, 13, qend)
        /\ Ancount(arg.full) > 0 =>
               /\ AnswerAt(arg.full, qend).owner = <<192, 12>>
               /\ AnswersEnd(arg.full, qend, Ancount(arg.full)) = Len(arg.full)

\* C18: in an untruncated response the i-th answer record encodes the i-th
\* record added for the question, and there is one answer for each.
C18_AnswersInStoreOrder ==
    (WellFormed /\ Len(arg.full) <= MAX_DNS_PACKET_SIZE) =>
        LET wanted == Wanted(arg.name, arg.qtype) IN
        /\ Len(Answers) = Len(wanted)
        /\ \A i \in 1..Len(wanted) :
               \E uninit \in Uninits :
                   SubSeq(arg.full, arg.starts[i] + 1, arg.starts[i] + Written(i))
                       = answerRecord(wanted[i], uninit)

\* C18 witness: seven answers of different types, the last for a record
\* added after the seeding
C18_Witness ==
    /\ WellFormed
    /\ Len(arg.full) <= MAX_DNS_PACKET_SIZE
    /\ Len(Answers) = 7
    /\ Len(added) > Len(SeedRecords)
    /\ Answers[1].type = 1
    /\ Answers[2].type = 15
    /\ Answers[6].type = 6

\* the bytes of a response after the copied query q
AnswerSection(q, full) == SubSeq(full, Len(q) + 1, Len(full))

\* C19: the same question with the QNAME in another letter case gets the
\* same RCODE, the same ANCOUNT and the same answer bytes; the responses
\* differ in QNAME bytes only.
C19_CaseInsensitiveOnWire ==
    WellFormed =>
        \A other \in ServeNames :
            EqIgnoreCase(other, arg.name) =>
                LET q == serveQuery(other, arg.qtype, arg.qclass, arg.trailing) IN
                \E full \in {assembleResponse(q, records, uninit) : uninit \in Uninits} :
                    /\ Rcode(full) = Rcode(arg.full)
                    /\ Ancount(full) = Ancount(arg.full)
                    /\ AnswerSection(q, full) = AnswerSection(arg.query, arg.full)
                    /\ Len(full) = Len(arg.full)
                    /\ \A i \in 1..Len(full) :
                           full[i] # arg.full[i] => (i > 12 /\ i <= 12 + Len(other) + 1)

\* C19 witness: EXAMPLE.com is asked for and answered
C19_Witness ==
    /\ WellFormed
    /\ arg.name = EXAMPLE_com
    /\ HasUpper(arg.name)
    /\ Ancount(ret) > 1
    /\ Rcode(ret) = 0

\* the offset (from 1) of the first space of value, 0 when it has none
FirstSpace(value) ==
    IF \E i \in 1..Len(value) : value[i] = 32
    THEN CHOOSE i \in 1..Len(value) :
             value[i] = 32 /\ \A j \in 1..(i - 1) : value[j] # 32
    ELSE 0

IsDigit(c) == c >= 48 /\ c <= 57

\* the decimal digits text starts with
RECURSIVE LeadingDigits(_)
LeadingDigits(text) ==
    IF text = <<>> \/ ~IsDigit(Head(text)) THEN <<>>
    ELSE <<Head(text)>> \o LeadingDigits(Tail(text))

RECURSIVE StripZeros(_)
StripZeros(digits) ==
    IF Len(digits) > 1 /\ Head(digits) = 48 THEN StripZeros(Tail(digits)) ELSE digits

\* the digits denote a number that is at most 2147483647
FitsInt(digits) ==
    LET d == StripZeros(digits)
        max == <<50, 49, 52, 55, 52, 56, 51, 54, 52, 55>>
    IN  \/ Len(d) < 10
        \/ /\ Len(d) = 10
           /\ \/ d = max
              \/ \E i \in 1..10 : d[i] < max[i] /\ \A j \in 1..(i - 1) : d[j] = max[j]

RECURSIVE DecimalValue(_)
DecimalValue(digits) ==
    IF digits = <<>> THEN 0
    ELSE DecimalValue(SubSeq(digits, 1, Len(digits) - 1)) * 10
         + (digits[Len(digits)] - 48)

\* priority and host name of the RDATA of an MX answer
MxPriority(answer) == answer.rdata[1] * 256 + answer.rdata[2]

MxHost(answer) == SubSeq(answer.rdata, 3, Len(answer.rdata))

\* the answers to MX records: position in the answer section and value
MxAnswered ==
    {i \in 1..Len(Answers) :
         /\ i <= Len(Wanted(arg.name, arg.qtype))
         /\ Wanted(arg.name, arg.qtype)[i].type = "MX"}

WrittenRdata(i) == SubSeq(arg.full, arg.starts[i] + 13, arg.starts[i] + Written(i))

\* the i-th record that answers the question
WantedAt(i) == Wanted(arg.name, arg.qtype)[i]

WantedIndices == 1..Len(Wanted(arg.name, arg.qtype))

\* C21: a TXT answer's RDATA is a length byte and the text cut to 255
\* bytes, and its RDLENGTH is the length of that text plus one, 256 for a
\* text of 255 bytes or more.
C21_TxtRdlength ==
    WellFormed =>
        \A i \in WantedIndices :
            WantedAt(i).type = "TXT" =>
                LET value == WantedAt(i).value
                    text == IF Len(value) > 255 THEN SubSeq(value, 1, 255) ELSE value
                IN  /\ Answers[i].type = 16
                    /\ WrittenRdata(i) = <<Len(text)>> \o text
                    /\ Answers[i].rdlength = Len(text) + 1

WireTypes == {"A", "NS", "CNAME", "PTR", "MX", "TXT", "SOA"}

\* C22: a record of a type other than A, NS, CNAME, PTR, MX, TXT and SOA is
\* answered with RDLENGTH len(value) and its value as RDATA, byte for byte.
C22_OtherTypesRawValue ==
    WellFormed =>
        \A i \in WantedIndices :
            WantedAt(i).type \notin WireTypes =>
                /\ Answers[i].rdlength = Len(WantedAt(i).value)
                /\ WrittenRdata(i) = WantedAt(i).value

\* the four numbers of a dotted quad: decimal numbers 0..255 without
\* leading zeros, separated by three dots; <<>> when value is not one
Octets(value) ==
    LET dots == {i \in 1..Len(value) : value[i] = 46} IN
    IF Cardinality(dots) # 3 THEN <<>>
    ELSE LET d == CHOOSE f \in [1..3 -> dots] : f[1] < f[2] /\ f[2] < f[3]
             edge == <<0, d[1], d[2], d[3], Len(value) + 1>>
             part == [k \in 1..4 |-> SubSeq(value, edge[k] + 1, edge[k + 1] - 1)]
             good(t) == /\ Len(t) \in 1..3
                        /\ LeadingDigits(t) = t
                        /\ StripZeros(t) = t
                        /\ DecimalValue(t) <= 255
         IN  IF \A k \in 1..4 : good(part[k])
             THEN [k \in 1..4 |-> DecimalValue(part[k])]
             ELSE <<>>

\* C23: an A record with the dotted quad a.b.c.d is answered with TYPE 1,
\* RDLENGTH 4 and the RDATA bytes a, b, c, d.
C23_ARecordAddressBytes ==
    WellFormed =>
        \A i \in WantedIndices :
            (WantedAt(i).type = "A" /\ Octets(WantedAt(i).value) # <<>>) =>
                /\ Answers[i].type = 1
                /\ Answers[i].rdlength = 4
                /\ WrittenRdata(i) = Octets(WantedAt(i).value)

\* C23 witness: the A record 192.0.2.1 answered with C0 00 02 01
C23_Witness ==
    /\ WellFormed
    /\ arg.qtype = 1
    /\ WantedIndices = {1}
    /\ WantedAt(1).type = "A"
    /\ Octets(WantedAt(1).value) = <<192, 0, 2, 1>>
    /\ WrittenRdata(1) = <<192, 0, 2, 1>>

\* C26: answering leaves the store as it was, and for a given store the
\* response is determined by the bytes of the query: no other response to
\* the same query can come out of the same store.
C26_ResponseFunctionOfQuery ==
    /\ [](WellFormed =>
              \A uninit \in Uninits :
                  assembleResponse(arg.query, records, uninit) = arg.full)
    /\ [][(op = "idle" /\ op' = "createDNSResponse") => records' = records]_vars

\* C27: in an untruncated response every RDLENGTH is the number of RDATA
\* bytes written for its record, and the walk over ANCOUNT records from the
\* end of the question ends at the end of the response.
C27_RdlengthIsRdataWritten ==
    (WellFormed /\ Len(arg.full) <= MAX_DNS_PACKET_SIZE) =>
        /\ \A i \in 1..Len(Answers) : Answers[i].rdlength = Len(WrittenRdata(i))
        /\ arg.trailing = <<>> =>
               AnswersEnd(arg.full, QuestionEnd(arg.query), Ancount(arg.full))
                   = Len(arg.full)

\* the bytes from the position a read started at to the end of the buffer
Remaining == Len(reader.data) - arg.start

\* C24: readUint8, readUint16 and readBytes(n) succeed exactly when 1, 2
\* and n bytes remain; they then return those bytes and advance the
\* position by 1, 2 and n; otherwise they raise the overrun error and leave
\* the position where it was.
C24_PrimitiveReadsChecked ==
    /\ op # "crashed"
    /\ op = "readUint8" =>
           IF Remaining >= 1
           THEN /\ ret.status = "ok"
                /\ ret.value = At(reader.data, arg.start)
                /\ reader.position = arg.start + 1
           ELSE ret.status = "out_of_range" /\ reader.position = arg.start
    /\ op = "readUint16" =>
           IF Remaining >= 2
           THEN /\ ret.status = "ok"
                /\ ret.value = At(reader.data, arg.start) * 256
                               + At(reader.data, arg.start + 1)
                /\ reader.position = arg.start + 2
           ELSE ret.status = "out_of_range" /\ reader.position = arg.start
    /\ op = "readBytes" =>
           IF arg.length >= 0 /\ Remaining >= arg.length
           THEN /\ ret.status = "ok"
                /\ ret.value = [i \in 1..arg.length |-> At(reader.data, arg.start + i - 1)]
                /\ reader.position = arg.start + arg.length
           ELSE ret.status = "out_of_range" /\ reader.position = arg.start

\* C28: where both decoders stay inside the buffer and meet no pointer
\* cycle, parseDomainName returns the name readDomainName returns and
\* leaves its offset where readDomainName leaves the position.
C28_DecodersAgree ==
    (op = "readDomainName" /\ ret.status = "ok"
        /\ parseDomainName(reader.data, arg.start).ok) =>
        /\ parseDomainName(reader.data, arg.start).name = ret.value
        /\ parseDomainName(reader.data, arg.start).offset = reader.position

\* C29: the position of a PacketReader is between 0 and the length of its
\* buffer after every call, failed or not.
C29_PositionInsideBuffer ==
    reader.position >= 0 /\ reader.position <= Len(reader.data)

\* the states of a request in the order createDNSResponse passes them
PhaseAfter(phase) ==
    CASE phase = "none"            -> {"ReceivedQuery"}
      [] phase = "ReceivedQuery"   -> {"QuestionDecoded"}
      [] phase = "QuestionDecoded" -> {"RecordsMatched"}
      [] phase = "RecordsMatched"  -> {"ResponseEncoded"}
      [] phase = "ResponseEncoded" -> {"Truncated", "none"}
      [] phase = "Truncated"       -> {"none"}

\* the request has reached its terminal state
Terminal == request.phase \in {"ResponseEncoded", "Truncated"}

\* C25: every request terminates: createDNSResponse goes through decoding
\* the question, matching the records and encoding the response, then the
\* optional truncation, in that order, and every query received reaches the
\* terminal state, also when its name contains compression pointers.
C25_EveryRequestTerminates ==
    /\ [][request'.phase # request.phase =>
              request'.phase \in PhaseAfter(request.phase)]_vars
    /\ [](request.phase = "ReceivedQuery" => <>Terminal)

\* a datagram has been received and its reply not yet handed to sendto
Processing == pc \in {"createDNSResponse", "sendto"}

\* C30: graceful shutdown: once the running flag is false the loop
\* eventually exits and the socket is closed; no datagram is received after
\* the loop has seen the flag false; a datagram whose processing has started
\* is answered before the loop exits.
C30_GracefulShutdown ==
    /\ [](~running => <>(pc = "exited" /\ sockfd = "closed"))
    /\ [][(pc \in {"cleanup", "exited"}) => received' = received]_vars
    /\ []((Processing /\ ~running) => <>(sent = received))
    /\ [](pc = "exited" => sent = received)

=============================================================================
